---- MODULE Spec2Model ----
(***************************************************************************)
(* The search core of puzzle_tools.py: depth_first_solve and               *)
(* breadth_first_solve over an abstract puzzle graph, and the PuzzleNode   *)
(* they build.  A puzzle is given by what its methods return: the ordered  *)
(* list extensions(), the flags is_solved() and fail_fast(), and the       *)
(* string __str__() used as the key of the visited set.                    *)
(***************************************************************************)
EXTENDS Integers, Sequences, FiniteSets, TLC

\* Number of distinct puzzle states of a graph, and the number of entries of
\* all the lists that extensions() returns, taken together.
NumStates == 4
MaxEdges == 3

\* The longest of the two chains of a fork.
MaxChain == 3

\* The largest N of the toy puzzle over the integers 0..N.
MaxN == 5

\* The nodes compared by PuzzleNode.__eq__: how many nodes a tree has at most,
\* and how many different puzzles they wrap.
MaxNodes == 3
NodePuzzles == 2

\* The objects of the constructor's heap: how many nodes are constructed at
\* most, and how long a list grows.
MaxHeapNodes == 2
MaxListLen == 2

\* How many cells of a sudoku grid are empty at most.
MaxBlanks == 2

States == 1..NumStates

\* The puzzle handed to the search entry point.
Initial == 1

\* Python's None for an Optional[Puzzle]; an Optional object reference is a
\* sequence of length at most one, None being the empty one.
NoPuzzle == 0
None == <<>>
Some(x) == <<x>>

VARIABLES
    alg,            \* which entry point runs
    extensions,     \* extensions[s]: the list s.extensions() returns
    solved,         \* solved[s]: s.is_solved()
    failfast,       \* failfast[s]: s.fail_fast()
    pc,             \* "loop": at the while test, "for": inside the for loop, "done": returned
    seen,           \* the set of canonical strings
    new_puzzle,     \* the work list of PuzzleNodes
    item,           \* the node popped last
    todo,           \* the extensions of item the for loop has not reached yet
    ret,            \* "running", "None" or "node"
    result,         \* the node returned when ret = "node"
    expanded,       \* history: the puzzles of the nodes popped so far, in order
    enqueued,       \* history: the appends of line 37/63, in order, each with
                    \* the number of pops made before it
    call,           \* "first" or "second": which call of the caller runs
    first,          \* the outcome of the caller's first call, once it is over
    eq_self,        \* PuzzleNode.__eq__: the node self
    eq_other,       \* PuzzleNode.__eq__: the object other
    other_type,     \* PuzzleNode.__eq__: type(other)
    eq_ret,         \* what self == other returned, once called
    eq_rev,         \* what other == self returned, once called
    heap_nodes,     \* PuzzleNode.__init__: the node objects, by identity
    heap_lists,     \* PuzzleNode.__init__: the list objects, by identity
    passed,         \* history: the list each node was constructed with, 0 for none
    symbols,        \* SudokuPuzzle: the grid self._symbols, a list of rows
    ext_ret         \* what self.extensions() did, once called

puzzle == <<alg, extensions, solved, failfast>>
caller == <<call, first>>
search == <<puzzle, pc, seen, new_puzzle, item, todo, ret, result, expanded,
            enqueued, caller>>
equality == <<eq_self, eq_other, other_type, eq_ret, eq_rev>>
heap == <<heap_nodes, heap_lists, passed>>
sudoku == <<symbols, ext_ret>>
others == <<equality, heap, sudoku>>
vars == <<search, others>>

----------------------------------------------------------------------------
\* Sequences helpers

Range(q) == {q[i] : i \in 1..Len(q)}

Front(q) == SubSeq(q, 1, Len(q) - 1)

Last(q) == q[Len(q)]

----------------------------------------------------------------------------
\* The puzzle contract

\* Canonical string of a puzzle state: deterministic and collision-free.
Str(s) == <<"puzzle", s>>

----------------------------------------------------------------------------
\* PuzzleNode

\* PuzzleNode.__init__: children is None or a list (copied), parent is None
\* or a node.
PuzzleNode(p, children, parent) ==
    [puzzle |-> p,
     parent |-> parent,
     children |-> IF children = None THEN <<>> ELSE children[1]]

NoNode == PuzzleNode(NoPuzzle, None, None)

----------------------------------------------------------------------------
\* The search loops

\* depth_first_solve: ext.extensions == [] compares the bound method with a
\* list, which is never equal.
DfsDeadEnd(ext) == FALSE

\* A common bug: the test is written the wrong way round.
BfsDeadEndInverted(ext) == extensions[ext] # <<>>

\* breadth_first_solve: ext.extensions() == []
BfsDeadEnd(ext) == extensions[ext] = <<>>

DeadEnd(ext) ==
    IF alg = "depth_first_solve" THEN DfsDeadEnd(ext) ELSE BfsDeadEnd(ext)

\* A common bug: the fail_fast() test is left out.
SkipIgnoresFailFast(ext) == Str(ext) \in seen \/ DeadEnd(ext)

\* The condition of the continue statement.
Skip(ext) == failfast[ext] \/ Str(ext) \in seen \/ DeadEnd(ext)

\* A common bug: the pruning test runs before the solved test.
VerdictPruneFirst(ext) ==
    IF Skip(ext) THEN "continue"
    ELSE IF solved[ext] THEN "return"
    ELSE "append"

\* The body of the for loop: what becomes of one extension.
Verdict(ext) ==
    IF solved[ext] THEN "return"
    ELSE IF Skip(ext) THEN "continue"
    ELSE "append"

\* A common bug: the loop stops one node early.
WorkLeftOffByOne(w) == Len(w) > 1

\* The while test: len(new_puzzle) > 0
WorkLeft(w) == Len(w) > 0

\* A common bug: the node itself is tested along with its extensions.
CandidatesAndSelf(n) == <<n.puzzle>> \o extensions[n.puzzle]

\* for ext in item.puzzle.extensions()
Candidates(n) == extensions[n.puzzle]

\* The number of states of the puzzle searched.
Size == Cardinality(DOMAIN extensions)

\* No run pops more than Size + 1 nodes (PopsBounded); the history of pops is
\* capped one above that.
MaxExpanded == Size + 2

----------------------------------------------------------------------------
\* The puzzles searched, first family: every graph of at most NumStates states
\* and MaxEdges edges, up to the names of the states.  The search reads a
\* state only through its methods, so the states are numbered in the order in
\* which the extension lists first mention them, starting from the initial
\* state; a state no chain of extensions reaches has no part in a run and is
\* left blank.  is_solved() and fail_fast() answer independently of each
\* other on every state.

\* The lengths of the lists of extensions, state by state.
RECURSIVE SumTo(_, _)
SumTo(p, n) == IF n = 0 THEN 0 ELSE p[n] + SumTo(p, n - 1)

Profiles == {p \in [States -> 0..MaxEdges] : SumTo(p, NumStates) <= MaxEdges}

\* The graph whose lists have the lengths p and, laid end to end, read flat.
Build(p, flat) ==
    [s \in States |-> SubSeq(flat, SumTo(p, s - 1) + 1, SumTo(p, s))]

\* order, followed by the states of l that are not in it yet.
RECURSIVE AppendNew(_, _)
AppendNew(order, l) ==
    IF l = <<>> THEN order
    ELSE AppendNew(IF Head(l) \in Range(order) THEN order ELSE Append(order, Head(l)),
                   Tail(l))

\* The states of g in the order of their first mention.
RECURSIVE Scan(_, _, _)
Scan(g, order, i) ==
    IF i > Len(order) THEN order
    ELSE Scan(g, AppendNew(order, g[order[i]]), i + 1)

Mentioned(g) == Scan(g, <<Initial>>, 1)

Canonical(g) ==
    LET o == Mentioned(g)
    IN /\ \A j \in 1..Len(o) : o[j] = j
       /\ \A s \in States : s > Len(o) => g[s] = <<>>

\* What is_solved() or fail_fast() may answer on the states of g.
Flags(g) == {[s \in States |-> s \in T] : T \in SUBSET (1..Len(Mentioned(g)))}

GraphInit ==
    /\ \E p \in Profiles : \E flat \in [1..SumTo(p, NumStates) -> States] :
           extensions = Build(p, flat)
    /\ Canonical(extensions)
    /\ solved \in Flags(extensions)
    /\ failfast \in Flags(extensions)

\* Second family: forks, where the order of the work list decides what is
\* found.  The initial
\* state has two extensions, the heads of two chains of a and of b states,
\* any of which may be solved, and any other of which may report fail_fast().
Fork(a, b) ==
    [s \in 1..(1 + a + b) |->
        IF s = Initial THEN <<2, a + 2>>
        ELSE IF s = a + 1 \/ s = a + b + 1 THEN <<>>
        ELSE <<s + 1>>]

ForkInit ==
    /\ \E a, b \in 1..MaxChain : extensions = Fork(a, b)
    /\ \E T \in SUBSET (DOMAIN extensions \ {Initial}) :
           /\ solved = [s \in DOMAIN extensions |-> s \in T]
           /\ \E F \in SUBSET (DOMAIN extensions \ ({Initial} \cup T)) :
                  failfast = [s \in DOMAIN extensions |-> s \in F]

\* Third family: the toy puzzle over the integers 0..n, state s standing for
\* the integer s - 1: extensions() of k is [k + 1] below n and [] at n,
\* is_solved() holds at n only, fail_fast() never.
Chain(n) == [s \in 1..(n + 1) |-> IF s = n + 1 THEN <<>> ELSE <<s + 1>>]

IsChain(n) ==
    /\ extensions = Chain(n)
    /\ solved = [s \in 1..(n + 1) |-> s = n + 1]
    /\ failfast = [s \in 1..(n + 1) |-> FALSE]

ChainInit == \E n \in 1..MaxN : IsChain(n)

\* No comparison of nodes is going on.
EqIdle ==
    /\ eq_self = NoNode
    /\ eq_other = NoNode
    /\ other_type = "PuzzleNode"
    /\ eq_ret = None
    /\ eq_rev = None

\* No object has been allocated.
HeapIdle ==
    /\ heap_nodes = <<>>
    /\ heap_lists = <<>>
    /\ passed = <<>>

\* No sudoku puzzle is at hand.
SudokuIdle ==
    /\ symbols = <<>>
    /\ ext_ret = None

\* What the caller holds before its first call has returned.
NoRun == [alg |-> "none", ret |-> "running", result |-> NoNode, expanded |-> <<>>]

Init ==
    /\ alg \in {"depth_first_solve", "breadth_first_solve"}
    /\ (GraphInit \/ ForkInit \/ ChainInit)
    /\ pc = "loop"
    /\ seen = {}
    /\ new_puzzle = <<PuzzleNode(Initial, None, None)>>
    /\ item = NoNode
    /\ todo = <<>>
    /\ ret = "running"
    /\ result = NoNode
    /\ expanded = <<>>
    /\ enqueued = <<>>
    /\ call = "first"
    /\ first = NoRun
    /\ EqIdle
    /\ HeapIdle
    /\ SudokuIdle

\* A common bug: pop(0) where pop() is meant.
DfsPopFirst ==
    /\ pc = "loop"
    /\ alg = "depth_first_solve"
    /\ WorkLeft(new_puzzle)
    /\ Len(expanded) < MaxExpanded
    /\ item' = Head(new_puzzle)
    /\ new_puzzle' = Tail(new_puzzle)
    /\ todo' = Candidates(item')
    /\ expanded' = Append(expanded, item'.puzzle)
    /\ pc' = "for"
    /\ UNCHANGED <<puzzle, caller, others, enqueued, seen, ret, result>>

\* A common bug: the node is read but left on the stack.
DfsPeek ==
    /\ pc = "loop"
    /\ alg = "depth_first_solve"
    /\ WorkLeft(new_puzzle)
    /\ Len(expanded) < MaxExpanded
    /\ item' = Last(new_puzzle)
    /\ todo' = Candidates(item')
    /\ expanded' = Append(expanded, item'.puzzle)
    /\ pc' = "for"
    /\ UNCHANGED <<puzzle, caller, others, enqueued, new_puzzle, seen, ret, result>>

\* depth_first_solve: item = new_puzzle.pop()
DfsPop ==
    /\ pc = "loop"
    /\ alg = "depth_first_solve"
    /\ WorkLeft(new_puzzle)
    /\ Len(expanded) < MaxExpanded
    /\ item' = Last(new_puzzle)
    /\ new_puzzle' = Front(new_puzzle)
    /\ todo' = Candidates(item')
    /\ expanded' = Append(expanded, item'.puzzle)
    /\ pc' = "for"
    /\ UNCHANGED <<puzzle, caller, others, enqueued, seen, ret, result>>

\* A common bug: pop() where pop(0) is meant.
BfsPopLast ==
    /\ pc = "loop"
    /\ alg = "breadth_first_solve"
    /\ WorkLeft(new_puzzle)
    /\ Len(expanded) < MaxExpanded
    /\ item' = Last(new_puzzle)
    /\ new_puzzle' = Front(new_puzzle)
    /\ todo' = Candidates(item')
    /\ expanded' = Append(expanded, item'.puzzle)
    /\ pc' = "for"
    /\ UNCHANGED <<puzzle, caller, others, enqueued, seen, ret, result>>

\* breadth_first_solve: item = new_puzzle.pop(0)
BfsPop ==
    /\ pc = "loop"
    /\ alg = "breadth_first_solve"
    /\ WorkLeft(new_puzzle)
    /\ Len(expanded) < MaxExpanded
    /\ item' = Head(new_puzzle)
    /\ new_puzzle' = Tail(new_puzzle)
    /\ todo' = Candidates(item')
    /\ expanded' = Append(expanded, item'.puzzle)
    /\ pc' = "for"
    /\ UNCHANGED <<puzzle, caller, others, enqueued, seen, ret, result>>

\* A common bug: the node popped is returned instead of its extension.
ExtSolvedReturnsItem ==
    /\ pc = "for"
    /\ todo # <<>>
    /\ Verdict(Head(todo)) = "return"
    /\ result' = PuzzleNode(item.puzzle, None, None)
    /\ ret' = "node"
    /\ pc' = "done"
    /\ UNCHANGED <<puzzle, caller, others, enqueued, seen, new_puzzle, item, todo, expanded>>

\* A variant that links the returned node to the node it was found from.
ExtSolvedLinked ==
    /\ pc = "for"
    /\ todo # <<>>
    /\ Verdict(Head(todo)) = "return"
    /\ result' = PuzzleNode(Head(todo), None, Some(item))
    /\ ret' = "node"
    /\ pc' = "done"
    /\ UNCHANGED <<puzzle, caller, others, enqueued, seen, new_puzzle, item, todo, expanded>>

\* if ext.is_solved(): return PuzzleNode(ext)
ExtSolved ==
    /\ pc = "for"
    /\ todo # <<>>
    /\ Verdict(Head(todo)) = "return"
    /\ result' = PuzzleNode(Head(todo), None, None)
    /\ ret' = "node"
    /\ pc' = "done"
    /\ UNCHANGED <<puzzle, caller, others, enqueued, seen, new_puzzle, item, todo, expanded>>

\* A common bug: break instead of continue.
ExtSkipBreaks ==
    /\ pc = "for"
    /\ todo # <<>>
    /\ Verdict(Head(todo)) = "continue"
    /\ todo' = <<>>
    /\ UNCHANGED <<puzzle, caller, others, enqueued, pc, seen, new_puzzle, item, ret, result, expanded>>

\* if ext.fail_fast() or str(ext) in seen or <dead end>: continue
ExtSkip ==
    /\ pc = "for"
    /\ todo # <<>>
    /\ Verdict(Head(todo)) = "continue"
    /\ todo' = Tail(todo)
    /\ UNCHANGED <<puzzle, caller, others, enqueued, pc, seen, new_puzzle, item, ret, result, expanded>>

\* A common bug: the new node is put on the list but not recorded in seen.
ExtPushNoSeen ==
    /\ pc = "for"
    /\ todo # <<>>
    /\ Verdict(Head(todo)) = "append"
    /\ LET new_node == PuzzleNode(Head(todo), None, None)
       IN /\ new_puzzle' = Append(new_puzzle, new_node)
          /\ enqueued' = Append(enqueued, [puzzle |-> new_node.puzzle,
                                           pops |-> Len(expanded)])
    /\ todo' = Tail(todo)
    /\ UNCHANGED <<puzzle, caller, others, seen, pc, item, ret, result, expanded>>

\* A common bug: the new node is recorded in seen but never put on the list.
ExtPushNoAppend ==
    /\ pc = "for"
    /\ todo # <<>>
    /\ Verdict(Head(todo)) = "append"
    /\ LET new_node == PuzzleNode(Head(todo), None, None)
       IN seen' = seen \cup {Str(new_node.puzzle)}
    /\ todo' = Tail(todo)
    /\ UNCHANGED <<puzzle, caller, others, enqueued, new_puzzle, pc, item, ret, result, expanded>>

\* new_node = PuzzleNode(ext); seen.add(str(new_node.puzzle));
\* new_puzzle.append(new_node)
ExtPush ==
    /\ pc = "for"
    /\ todo # <<>>
    /\ Verdict(Head(todo)) = "append"
    /\ LET new_node == PuzzleNode(Head(todo), None, None)
       IN /\ seen' = seen \cup {Str(new_node.puzzle)}
          /\ new_puzzle' = Append(new_puzzle, new_node)
          /\ enqueued' = Append(enqueued, [puzzle |-> new_node.puzzle,
                                           pops |-> Len(expanded)])
    /\ todo' = Tail(todo)
    /\ UNCHANGED <<puzzle, caller, others, pc, item, ret, result, expanded>>

\* The for loop is exhausted: back to the while test.
ForEnd ==
    /\ pc = "for"
    /\ todo = <<>>
    /\ pc' = "loop"
    /\ UNCHANGED <<puzzle, caller, others, enqueued, seen, new_puzzle, item, todo, ret, result, expanded>>

\* The while test fails: return None
ReturnNone ==
    /\ pc = "loop"
    /\ ~WorkLeft(new_puzzle)
    /\ ret' = "None"
    /\ pc' = "done"
    /\ UNCHANGED <<puzzle, caller, others, enqueued, seen, new_puzzle, item, todo, result, expanded>>

Next ==
    \/ DfsPop
    \/ BfsPop
    \/ ExtSolved
    \/ ExtSkip
    \/ ExtPush
    \/ ForEnd
    \/ ReturnNone

Spec == Init /\ [][Next]_vars

\* The loops run without suspension: a step that can be taken is taken.
FairSpec == Spec /\ WF_vars(Next)

----------------------------------------------------------------------------
\* A caller that calls twice with the same initial puzzle

\* What the caller keeps of the call that has just returned.
Outcome == [alg |-> alg, ret |-> ret, result |-> result, expanded |-> expanded]

\* Lines 23-24 / 49-50 at the start of a call: seen = set() and
\* new_puzzle = [PuzzleNode(puzzle)], the other locals not bound yet.
Enter ==
    /\ seen' = {}
    /\ new_puzzle' = <<PuzzleNode(Initial, None, None)>>
    /\ pc' = "loop"
    /\ item' = NoNode
    /\ todo' = <<>>
    /\ ret' = "running"
    /\ result' = NoNode
    /\ expanded' = <<>>
    /\ enqueued' = <<>>

\* A common bug: seen lives outside the function and survives the call.
CallAgainKeepsSeen ==
    /\ pc = "done"
    /\ call = "first"
    /\ call' = "second"
    /\ first' = Outcome
    /\ new_puzzle' = <<PuzzleNode(Initial, None, None)>>
    /\ pc' = "loop"
    /\ item' = NoNode
    /\ todo' = <<>>
    /\ ret' = "running"
    /\ result' = NoNode
    /\ expanded' = <<>>
    /\ enqueued' = <<>>
    /\ UNCHANGED <<puzzle, seen, others>>

\* The first call has returned; the caller calls the same entry point again
\* with the same initial puzzle.
CallAgain ==
    /\ pc = "done"
    /\ call = "first"
    /\ call' = "second"
    /\ first' = Outcome
    /\ Enter
    /\ UNCHANGED <<puzzle, others>>

\* The first call has returned; the caller calls the other entry point with
\* the same initial puzzle.
CallOther ==
    /\ pc = "done"
    /\ call = "first"
    /\ call' = "second"
    /\ first' = Outcome
    /\ alg' = IF alg = "depth_first_solve" THEN "breadth_first_solve"
                                           ELSE "depth_first_solve"
    /\ Enter
    /\ UNCHANGED <<extensions, solved, failfast, others>>

TwiceNext ==
    \/ Next
    \/ CallAgain
    \/ CallOther

TwiceSpec == Init /\ [][TwiceNext]_vars

----------------------------------------------------------------------------
\* PuzzleNode.__eq__

\* No search is going on.
SearchIdle ==
    /\ alg = "none"
    /\ extensions = <<>>
    /\ solved = <<>>
    /\ failfast = <<>>
    /\ pc = "idle"
    /\ seen = {}
    /\ new_puzzle = <<>>
    /\ item = NoNode
    /\ todo = <<>>
    /\ ret = "running"
    /\ result = NoNode
    /\ expanded = <<>>
    /\ enqueued = <<>>
    /\ call = "first"
    /\ first = NoRun

RECURSIVE TreesOfSize(_)
RECURSIVE ForestsOfSize(_)

\* The nodes that have k nodes in all, their descendants counted, and the
\* children lists that have m.
TreesOfSize(k) ==
    {PuzzleNode(p, Some(f), None) : p \in 1..NodePuzzles, f \in ForestsOfSize(k - 1)}

ForestsOfSize(m) ==
    IF m = 0 THEN {<<>>}
    ELSE UNION {{<<t>> \o f : t \in TreesOfSize(j), f \in ForestsOfSize(m - j)} :
                   j \in 1..m}

Trees == UNION {TreesOfSize(k) : k \in 1..MaxNodes}

RECURSIVE NodeEq(_, _, _)

\* x in list: some element of the list is x or equals x
In(x, list) == \E i \in 1..Len(list) : NodeEq(x, list[i], "PuzzleNode")

\* A common bug: only one of the two inclusions is tested.
NodeEqOneWay(self, other, type_other) ==
    /\ type_other = "PuzzleNode"
    /\ self.puzzle = other.puzzle
    /\ \A i \in 1..Len(other.children) : In(other.children[i], self.children)

\* return (type(self) == type(other) and self.puzzle == other.puzzle and
\*         all([x in self.children for x in other.children]) and
\*         all([x in other.children for x in self.children]))
NodeEq(self, other, type_other) ==
    /\ type_other = "PuzzleNode"
    /\ self.puzzle = other.puzzle
    /\ \A i \in 1..Len(other.children) : In(other.children[i], self.children)
    /\ \A i \in 1..Len(self.children) : In(self.children[i], other.children)

EqInit ==
    /\ SearchIdle
    /\ eq_self \in Trees
    /\ eq_other \in Trees
    /\ other_type \in {"PuzzleNode", "object"}
    /\ eq_ret = None
    /\ eq_rev = None
    /\ HeapIdle
    /\ SudokuIdle

\* self == other
CallEq ==
    /\ eq_ret = None
    /\ eq_ret' = Some(NodeEq(eq_self, eq_other, other_type))
    /\ UNCHANGED <<search, heap, sudoku, eq_self, eq_other, other_type, eq_rev>>

\* other == self, other being a PuzzleNode
CallEqReversed ==
    /\ other_type = "PuzzleNode"
    /\ eq_rev = None
    /\ eq_rev' = Some(NodeEq(eq_other, eq_self, "PuzzleNode"))
    /\ UNCHANGED <<search, heap, sudoku, eq_self, eq_other, other_type, eq_ret>>

EqNext ==
    \/ CallEq
    \/ CallEqReversed

EqSpec == EqInit /\ [][EqNext]_vars

----------------------------------------------------------------------------
\* PuzzleNode.__init__ on a heap of objects: a node is an index of heap_nodes,
\* a list an index of heap_lists, and a list holds nodes by identity.

\* The caller has made one list, L = [], list 1 of the heap.
HeapInit ==
    /\ SearchIdle
    /\ EqIdle
    /\ heap_nodes = <<>>
    /\ heap_lists = << <<>> >>
    /\ passed = <<>>
    /\ SudokuIdle

\* The child node the caller puts at place i of list l.
Child(l, i) == <<"child", l, i>>

\* l.append(child), l being any list the caller can reach: its own or the
\* children of a node.
ListAppend(l) ==
    /\ Len(heap_lists[l]) < MaxListLen
    /\ heap_lists' = [heap_lists EXCEPT ![l] = Append(@, Child(l, Len(@) + 1))]
    /\ UNCHANGED <<search, equality, sudoku, heap_nodes, passed>>

\* l.pop()
ListPop(l) ==
    /\ heap_lists[l] # <<>>
    /\ heap_lists' = [heap_lists EXCEPT ![l] = Front(@)]
    /\ UNCHANGED <<search, equality, sudoku, heap_nodes, passed>>

\* A common bug: self.children = children, the caller's list itself.
NewNodeAliased(p, L, parent) ==
    /\ Len(heap_nodes) < MaxHeapNodes
    /\ heap_lists' = Append(heap_lists, <<>>)
    /\ heap_nodes' = Append(heap_nodes,
                            [puzzle |-> p, parent |-> parent,
                             children |-> IF L = 0 THEN Len(heap_lists) + 1 ELSE L])
    /\ passed' = Append(passed, L)
    /\ UNCHANGED <<search, equality, sudoku>>

\* PuzzleNode(p, L, parent), L = 0 standing for children omitted and
\* parent = 0 for parent omitted:
\* self.puzzle, self.parent = puzzle, parent, and self.children is a new
\* list, empty when children is None and children[:] otherwise.
NewNode(p, L, parent) ==
    /\ Len(heap_nodes) < MaxHeapNodes
    /\ heap_lists' = Append(heap_lists, IF L = 0 THEN <<>> ELSE heap_lists[L])
    /\ heap_nodes' = Append(heap_nodes,
                            [puzzle |-> p, parent |-> parent,
                             children |-> Len(heap_lists) + 1])
    /\ passed' = Append(passed, L)
    /\ UNCHANGED <<search, equality, sudoku>>

\* The constructor is called with children alone, or with puzzle and parent
\* as well, the parent being the node made last.
HeapNext ==
    \/ \E l \in 1..Len(heap_lists) : ListAppend(l)
    \/ \E l \in 1..Len(heap_lists) : ListPop(l)
    \/ \E L \in 0..Len(heap_lists) :
          \/ NewNode(NoPuzzle, L, 0)
          \/ NewNode(Initial, L, Len(heap_nodes))

HeapSpec == HeapInit /\ [][HeapNext]_vars

----------------------------------------------------------------------------
\* SudokuPuzzle.extensions (rows and columns count from 1 here, from 0 in the
\* code)

Blank == "*"

\* The solved grid of the doctests and its symbol set.
SolvedGrid == << <<"A", "B", "C", "D">>,
                <<"C", "D", "A", "B">>,
                <<"B", "A", "D", "C">>,
                <<"D", "C", "B", "A">> >>

SymbolSet == {"A", "B", "C", "D"}

Cells == (1..Len(SolvedGrid)) \X (1..Len(SolvedGrid))

\* The solved grid with the cells of B emptied.
BlankOut(B) ==
    [r \in 1..Len(SolvedGrid) |->
        [c \in 1..Len(SolvedGrid) |->
            IF <<r, c>> \in B THEN Blank ELSE SolvedGrid[r][c]]]

SudokuInit ==
    /\ SearchIdle
    /\ EqIdle
    /\ HeapIdle
    /\ \E B \in SUBSET Cells :
          /\ Cardinality(B) <= MaxBlanks
          /\ symbols = BlankOut(B)
    /\ ext_ret = None

\* any("*" in row for row in symbols)
HasBlank(sy) == \E r \in 1..Len(sy) : Blank \in Range(sy[r])

\* set(self._symbols[r])
RowSet(sy, r) == Range(sy[r])

\* set([row[c] for row in self._symbols])
ColumnSet(sy, c) == {sy[r][c] : r \in 1..Len(sy)}

\* round(n ** (1 / 2))
RoundedRoot(n) ==
    CHOOSE k \in 0..n : (2 * k - 1) * (2 * k - 1) < 4 * n /\ 4 * n < (2 * k + 1) * (2 * k + 1)

\* The subsquare of cell (r, c): ss rows and columns from its upper left
\* corner.
SubsquareSet(sy, r, c) ==
    LET ss == RoundedRoot(Len(sy))
        ul_row == ((r - 1) \div ss) * ss
        ul_col == ((c - 1) \div ss) * ss
    IN {sy[ul_row + i][ul_col + j] : i \in 1..ss, j \in 1..ss}

\* The local r of extensions() before any assignment to it.
UnboundLocal == -1

RECURSIVE FirstRowFrom(_, _)

\* while "*" not in symbols[r]: r += 1
FirstRowFrom(sy, r) ==
    IF Blank \in Range(sy[r]) THEN r ELSE FirstRowFrom(sy, r + 1)

\* symbols[r].index("*")
Index(row) ==
    CHOOSE c \in 1..Len(row) : row[c] = Blank /\ \A d \in 1..(c - 1) : row[d] # Blank

\* The else branch, lines 169-184, entered with the local r holding r0: the
\* read of an unbound r raises UnboundLocalError. The list returned is built
\* by iterating over a set, in no order the code fixes: it is kept as a set.
ExtensionsFrom(sy, r0) ==
    IF r0 = UnboundLocal
    THEN [raised |-> TRUE, value |-> {}]
    ELSE LET r == FirstRowFrom(sy, r0)
             c == Index(sy[r])
             allowed_symbols ==
                 SymbolSet \ (RowSet(sy, r) \cup ColumnSet(sy, c)
                                            \cup SubsquareSet(sy, r, c))
         IN [raised |-> FALSE,
             value |-> {[sy EXCEPT ![r][c] = symbol] : symbol \in allowed_symbols}]

\* Lines 165-184: nothing binds r before line 169 reads it.
Extensions(sy) ==
    IF ~HasBlank(sy)
    THEN [raised |-> FALSE, value |-> {}]
    ELSE ExtensionsFrom(sy, UnboundLocal)

\* self.extensions()
CallExtensions ==
    /\ symbols # <<>>
    /\ ext_ret = None
    /\ ext_ret' = Some(Extensions(symbols))
    /\ UNCHANGED <<search, equality, heap, symbols>>

SudokuNext == CallExtensions

SudokuSpec == SudokuInit /\ [][SudokuNext]_vars

----------------------------------------------------------------------------
\* The puzzle graph

Succ(s) == Range(extensions[s])

RECURSIVE Closure(_, _)
Closure(S, k) ==
    IF k = 0 THEN S ELSE Closure(S \cup UNION {Succ(x) : x \in S}, k - 1)

\* The states reachable from s by one or more extensions() steps.
ReachPlus(s) == Closure(Succ(s), Size)

\* No state the search can meet lies on a cycle.
AcyclicGraph ==
    \A s \in {Initial} \cup ReachPlus(Initial) : s \notin ReachPlus(s)

\* The states reachable from the initial state by one or more steps along a
\* chain on which no state, the initial one and the last one included,
\* reports fail_fast().
RECURSIVE NoFFClosure(_, _)
NoFFClosure(S, k) ==
    IF k = 0 THEN S
    ELSE NoFFClosure(S \cup {t \in UNION {Succ(x) : x \in S} : ~failfast[t]}, k - 1)

NoFFReach ==
    IF failfast[Initial] THEN {}
    ELSE NoFFClosure({t \in Succ(Initial) : ~failfast[t]}, Size)

\* A state a chain may pass through on its way to a solved state.
Through(s) == ~solved[s] /\ ~failfast[s]

\* Within(k): the states that end a chain of 1..k steps from the initial state
\* whose intermediate states are unsolved and do not report fail_fast().
RECURSIVE Within(_)
Within(k) ==
    IF k = 1 THEN Succ(Initial)
    ELSE Within(k - 1) \cup UNION {Succ(x) : x \in {y \in Within(k - 1) : Through(y)}}

MaxDepth == Size + 1

\* The length of the shortest such chain to t.
Depth(t) == CHOOSE k \in 1..MaxDepth :
                /\ t \in Within(k)
                /\ \A j \in 1..(k - 1) : t \notin Within(j)

SolvedTargets == {t \in Within(MaxDepth) : solved[t]}

----------------------------------------------------------------------------
\* The node chain a caller walks: n, n.children[0], n.children[0].children[0], ...

RECURSIVE ChainEnd(_)
ChainEnd(n) == IF n.children = <<>> THEN n ELSE ChainEnd(n.children[1])

RECURSIVE ChainOfExtensions(_)
ChainOfExtensions(n) ==
    \/ n.children = <<>>
    \/ /\ n.children[1].puzzle \in Succ(n.puzzle)
       /\ ChainOfExtensions(n.children[1])

----------------------------------------------------------------------------
\* Auxiliary: the cap on the history of pops is never reached.
PopsBounded == Len(expanded) <= Size + 1

----------------------------------------------------------------------------
\* C1. Soundness: a returned node wraps a solved puzzle that is reachable from
\* the initial puzzle by one or more extensions() steps.
C1_Soundness ==
    ret = "node" =>
        /\ solved[result.puzzle]
        /\ result.puzzle \in ReachPlus(Initial)

\* A solution found below the first level.
C1_Witness ==
    /\ pc = "done"
    /\ ret = "node"
    /\ Len(expanded) >= 2
    /\ result.puzzle \notin Succ(Initial)

\* C2. Completeness modulo fail-fast: when some solved state is reachable from
\* the initial state along a chain on which no state reports fail_fast(), the
\* search eventually returns a node, and never None.
SolvableWithoutFailFast == \E t \in NoFFReach : solved[t]

C2_Completeness ==
    SolvableWithoutFailFast => (<>(ret = "node") /\ [](ret # "None"))

\* A solution found after a pruned extension was passed over.
C2_Witness ==
    /\ SolvableWithoutFailFast
    /\ pc = "done"
    /\ ret = "node"
    /\ Len(expanded) >= 2
    /\ \E e \in Succ(Initial) : ~solved[e] /\ failfast[e]

\* C3. Termination: on a graph without cycles the search terminates.
C3_Termination == AcyclicGraph => <>(pc = "done")

\* A run over an acyclic graph that expanded three nodes and returned.
C3_Witness ==
    /\ AcyclicGraph
    /\ pc = "done"
    /\ Len(expanded) >= 3

\* C4. On success the returned node wraps the initial puzzle and its
\* children[0] links lead, extension by extension, to a node wrapping a solved
\* puzzle.
C4_ReturnsPathFromInitial ==
    ret = "node" =>
        /\ result.puzzle = Initial
        /\ ChainOfExtensions(result)
        /\ solved[ChainEnd(result).puzzle]

\* C5. On success the returned node is a fresh node wrapping the solved
\* extension, with no children and no parent.
C5_FreshSolvedNode ==
    ret = "node" =>
        /\ todo # <<>>
        /\ solved[Head(todo)]
        /\ result.puzzle = Head(todo)
        /\ result.children = <<>>
        /\ result.parent = None

\* A node returned while other nodes are still in the work collection.
C5_Witness ==
    /\ pc = "done"
    /\ ret = "node"
    /\ new_puzzle # <<>>

\* C6. When no extension of any expanded state is solved, the search ends
\* with the work collection empty and returns None.
NoSolvedExtensionMet ==
    \A i \in 1..Len(expanded) : \A e \in Succ(expanded[i]) : ~solved[e]

C6_NoSolutionIsNone ==
    (pc = "done" /\ NoSolvedExtensionMet) =>
        /\ ret = "None"
        /\ new_puzzle = <<>>

\* None returned after more than one node was expanded.
C6_Witness ==
    /\ pc = "done"
    /\ NoSolvedExtensionMet
    /\ ret = "None"
    /\ Len(expanded) >= 2

\* C7. The initial state is never tested with is_solved(): a returned puzzle
\* is an extension of the node expanded last, and a solved initial state from
\* which no solved state is reachable in one or more steps yields None.
C7_InitialNeverTested ==
    /\ ret = "node" => result.puzzle \in Succ(item.puzzle)
    /\ (pc = "done" /\ solved[Initial]
            /\ \A t \in ReachPlus(Initial) : ~solved[t]) => ret = "None"

\* A solved initial state with extensions, and None returned.
C7_Witness ==
    /\ pc = "done"
    /\ solved[Initial]
    /\ extensions[Initial] # <<>>
    /\ \A t \in ReachPlus(Initial) : ~solved[t]
    /\ ret = "None"

\* C8. No revisits: no two nodes popped in one run, the initial node included,
\* wrap states with equal canonical strings.
C8_NoRevisits ==
    \A i, j \in 1..Len(expanded) :
        i # j => Str(expanded[i]) # Str(expanded[j])

\* C9. Breadth-first shallowest-first: the state breadth_first_solve returns
\* is a solved state of minimal depth, depth being the length of the shortest
\* chain from the initial state whose intermediate states are unsolved and do
\* not report fail_fast().
C9_BfsShallowest ==
    (alg = "breadth_first_solve" /\ ret = "node") =>
        /\ result.puzzle \in SolvedTargets
        /\ \A t \in SolvedTargets : Depth(result.puzzle) <= Depth(t)

\* Solved states at depth 2 and at depth 3, the deeper one down the extension
\* appended last: the one at depth 2 is returned.
C9_Witness ==
    /\ alg = "breadth_first_solve"
    /\ pc = "done"
    /\ ret = "node"
    /\ Depth(result.puzzle) = 2
    /\ \E t \in SolvedTargets :
           /\ Depth(t) = 3
           /\ t \in ReachPlus(Last(extensions[Initial]))
           /\ result.puzzle \notin ReachPlus(Last(extensions[Initial]))

\* C10 as stated: when the initial state has extensions and every one of them
\* reports fail_fast(), the search returns None.
AllExtensionsFailFast ==
    /\ extensions[Initial] # <<>>
    /\ \A e \in Succ(Initial) : failfast[e]

C10_AllFailFastIsNone ==
    (pc = "done" /\ AllExtensionsFailFast) => ret = "None"

\* C10 amended: when the initial state has extensions and every one of them
\* reports fail_fast() and none of them is solved, the search returns None.
C10_AllFailFastUnsolvedIsNone ==
    (pc = "done" /\ AllExtensionsFailFast
        /\ \A e \in Succ(Initial) : ~solved[e]) => ret = "None"

\* Every extension pruned although one of them leads to a solved state.
C10_Witness ==
    /\ pc = "done"
    /\ AllExtensionsFailFast
    /\ \A e \in Succ(Initial) : ~solved[e]
    /\ \E t \in ReachPlus(Initial) : solved[t]
    /\ ret = "None"

\* C11. Linear chain: on the toy puzzle over 0..N, N >= 1, both searches
\* started at 0 return a node wrapping N (state N + 1 of the model).
C11_ChainReturnsEnd ==
    \A n \in 1..MaxN :
        (IsChain(n) /\ pc = "done") =>
            /\ ret = "node"
            /\ result.puzzle = n + 1
            /\ expanded = [i \in 1..n |-> i]

\* The chain 0..5 searched to its end.
C11_Witness ==
    /\ IsChain(5)
    /\ pc = "done"
    /\ ret = "node"
    /\ result.puzzle = 6

IsPrefix(p, q) == Len(p) <= Len(q) /\ SubSeq(q, 1, Len(p)) = p

\* C12. Two sequential calls of the same entry point with the same initial
\* puzzle: the second call expands the same states in the same order as the
\* first and returns the same result.
C12_SecondCallRepeatsFirst ==
    (call = "second" /\ alg = first.alg) =>
        /\ IsPrefix(expanded, first.expanded)
        /\ pc = "done" => /\ expanded = first.expanded
                          /\ ret = first.ret
                          /\ result = first.result

\* A second call over after pushing and popping again what the first did.
C12_Witness ==
    /\ call = "second"
    /\ alg = first.alg
    /\ pc = "done"
    /\ Len(first.expanded) >= 3
    /\ expanded = first.expanded
    /\ seen # {}

\* C14. On the same puzzle, depth_first_solve returns None exactly when
\* breadth_first_solve returns None.
C14_SameNoneness ==
    (call = "second" /\ alg # first.alg /\ pc = "done") =>
        ((ret = "None") <=> (first.ret = "None"))

\* Both searches found a solution, and not the same one.
C14_Witness ==
    /\ call = "second"
    /\ alg # first.alg
    /\ pc = "done"
    /\ ret = "node"
    /\ first.ret = "node"
    /\ result.puzzle # first.result.puzzle

\* C13. Skip rule, for both entry points: an unsolved extension that reports
\* fail_fast(), or whose string is in seen, or that has no extensions of its
\* own, is neither appended nor added to seen; every other unsolved extension
\* is wrapped in a node, added to seen and appended.
C13_SkipRule ==
    [][(pc = "for" /\ todo # <<>> /\ ~solved[Head(todo)]) =>
        LET ext == Head(todo)
        IN IF failfast[ext] \/ Str(ext) \in seen \/ extensions[ext] = <<>>
           THEN new_puzzle' = new_puzzle /\ seen' = seen
           ELSE /\ new_puzzle' = Append(new_puzzle, PuzzleNode(ext, None, None))
                /\ seen' = seen \cup {Str(ext)}]_vars

RECURSIVE AsSet(_)

\* A node with its children read as a set, and theirs too.
AsSet(n) ==
    [puzzle |-> n.puzzle,
     children |-> {AsSet(n.children[i]) : i \in 1..Len(n.children)}]

Leaf(p) == PuzzleNode(p, None, None)

\* C15. PuzzleNode equality is set-like on children: self == other holds
\* exactly when other is a PuzzleNode, the puzzles are equal and every child
\* of each equals some child of the other, order and duplicates ignored;
\* Node(s, [a, b]) equals Node(s, [b, a]) and differs from Node(s, [a]) for
\* distinct a and b; other == self gives the same answer.
C15_EqIsSetLike ==
    /\ eq_ret # None =>
          /\ eq_ret[1] = (other_type = "PuzzleNode" /\ AsSet(eq_self) = AsSet(eq_other))
          /\ \A s, a, b \in 1..NodePuzzles :
                (/\ a # b
                 /\ other_type = "PuzzleNode"
                 /\ eq_self = PuzzleNode(s, Some(<<Leaf(a), Leaf(b)>>), None)) =>
                    /\ eq_other = PuzzleNode(s, Some(<<Leaf(b), Leaf(a)>>), None)
                          => eq_ret[1]
                    /\ eq_other = PuzzleNode(s, Some(<<Leaf(a)>>), None)
                          => ~eq_ret[1]
    /\ (eq_ret # None /\ eq_rev # None) => eq_ret = eq_rev

\* Two nodes with the same two children in opposite orders compared equal
\* both ways round.
C15_Witness ==
    /\ eq_self = PuzzleNode(1, Some(<<Leaf(1), Leaf(2)>>), None)
    /\ eq_other = PuzzleNode(1, Some(<<Leaf(2), Leaf(1)>>), None)
    /\ other_type = "PuzzleNode"
    /\ eq_ret = Some(TRUE)
    /\ eq_rev = Some(TRUE)

\* C16. PuzzleNode construction does not alias the caller's list: the node
\* gets a new list holding the same child nodes, a later change of the
\* caller's list leaves node.children alone and the other way round, and
\* nodes, those constructed without children included, never share a list.
C16_NoAliasing ==
    [][/\ \A k \in 1..Len(heap_nodes) :
            LET c == heap_nodes[k].children
                L == passed[k]
            IN /\ L # 0 =>
                    /\ c # L
                    /\ heap_lists'[L] # heap_lists[L] => heap_lists'[c] = heap_lists[c]
                    /\ heap_lists'[c] # heap_lists[c] => heap_lists'[L] = heap_lists[L]
               /\ \A j \in 1..Len(heap_nodes) :
                    (j # k /\ heap_lists'[heap_nodes[j].children]
                                 # heap_lists[heap_nodes[j].children]) =>
                        heap_lists'[c] = heap_lists[c]
       /\ Len(heap_nodes') > Len(heap_nodes) =>
            LET k == Len(heap_nodes')
                L == passed'[k]
            IN /\ heap_lists'[heap_nodes'[k].children]
                     = IF L = 0 THEN <<>> ELSE heap_lists[L]
               /\ \A l \in 1..Len(heap_lists) : heap_lists'[l] = heap_lists[l]
               /\ \A j \in 1..Len(heap_nodes) :
                     heap_nodes'[j].children # heap_nodes'[k].children]_vars

\* A node made from a list that holds a child, the caller's list changed
\* since and the node's list still holding the child.
C16_Witness ==
    \E k \in 1..Len(heap_nodes) :
        /\ passed[k] # 0
        /\ heap_lists[heap_nodes[k].children] # <<>>
        /\ heap_lists[passed[k]] # heap_lists[heap_nodes[k].children]

\* The first empty cell in row-major order.
FirstBlank(sy) ==
    CHOOSE cell \in Cells :
        /\ sy[cell[1]][cell[2]] = Blank
        /\ \A other \in Cells :
              sy[other[1]][other[2]] = Blank =>
                  \/ other[1] > cell[1]
                  \/ other[1] = cell[1] /\ other[2] >= cell[2]

\* C17. SudokuPuzzle.extensions() returns no puzzle for a grid without an
\* empty cell; otherwise it returns one new puzzle for each symbol that is not
\* yet in the row, the column or the subsquare of the first empty cell in
\* row-major order, each the grid with that cell alone filled in.
C17_ExtensionsFillFirstBlank ==
    ext_ret # None =>
        /\ ~ext_ret[1].raised
        /\ ext_ret[1].value =
              IF ~HasBlank(symbols) THEN {}
              ELSE LET r == FirstBlank(symbols)[1]
                       c == FirstBlank(symbols)[2]
                   IN {[symbols EXCEPT ![r][c] = x] :
                          x \in SymbolSet \ (RowSet(symbols, r)
                                               \cup ColumnSet(symbols, c)
                                               \cup SubsquareSet(symbols, r, c))}

\* The place of the first solved extension in a list of extensions.
FirstSolved(exts) ==
    CHOOSE k \in 1..Len(exts) : solved[exts[k]] /\ \A j \in 1..(k - 1) : ~solved[exts[j]]

\* C18. First solved extension wins: the node returned wraps the first solved
\* extension, in extensions() order, of the node being expanded; the search
\* stops there, the later siblings left untested and nothing popped after;
\* and no node popped earlier had a solved extension.
C18_FirstSolvedWins ==
    /\ ret = "node" =>
          LET exts == extensions[item.puzzle]
          IN /\ \E k \in 1..Len(exts) : solved[exts[k]]
             /\ result.puzzle = exts[FirstSolved(exts)]
             /\ todo = SubSeq(exts, FirstSolved(exts), Len(exts))
             /\ item.puzzle = Last(expanded)
             /\ ~ENABLED Next
    /\ \A i \in 1..(Len(expanded) - 1) :
          \A k \in 1..Len(extensions[expanded[i]]) : ~solved[extensions[expanded[i]][k]]

\* A search that returned the second extension of a node, the first one
\* pushed before it and a third one never looked at.
C18_Witness ==
    /\ ret = "node"
    /\ Len(extensions[item.puzzle]) >= 3
    /\ FirstSolved(extensions[item.puzzle]) = 2
    /\ Len(todo) >= 2
    /\ new_puzzle # <<>>

\* When the extension p was appended: its place in the history of appends.
Pushed(p) == CHOOSE i \in 1..Len(enqueued) : enqueued[i].puzzle = p

\* C19. depth_first_solve removes last in, first out: the node popped is the
\* one appended last among those on the stack, so everything left on the stack
\* was appended before it; and when the node expanded before appended
\* e1..ek, the node popped next is ek.
C19_DfsIsLifo ==
    [][(alg = "depth_first_solve" /\ Len(expanded') = Len(expanded) + 1
            /\ Len(expanded) >= 1) =>
        /\ Last(expanded') = item'.puzzle
        /\ \A i \in 1..Len(new_puzzle') :
              Pushed(new_puzzle'[i].puzzle) < Pushed(item'.puzzle)
        /\ \A i \in 1..(Len(new_puzzle') - 1) :
              Pushed(new_puzzle'[i].puzzle) < Pushed(new_puzzle'[i + 1].puzzle)
        /\ Last(enqueued).pops = Len(expanded) =>
              item'.puzzle = Last(enqueued).puzzle]_vars

\* A depth-first search that has popped the last of two extensions appended
\* by the same node, the first one still on the stack.
C19_Witness ==
    /\ alg = "depth_first_solve"
    /\ pc = "for"
    /\ Len(enqueued) >= 2
    /\ enqueued[Len(enqueued)].pops = enqueued[Len(enqueued) - 1].pops
    /\ item.puzzle = Last(enqueued).puzzle
    /\ Len(expanded) = Last(enqueued).pops + 1
    /\ new_puzzle # <<>>

\* C20. Work-collection bound: every node on the work list but the initial
\* node has its string in seen, no string is appended twice, and the number of
\* nodes ever put on the list is at most the number of distinct strings of
\* the states reachable from the initial one, plus one for the initial node.
C20_WorkListBound ==
    /\ \A i \in 1..Len(new_puzzle) :
          \/ Str(new_puzzle[i].puzzle) \in seen
          \/ expanded = <<>> /\ new_puzzle = <<PuzzleNode(Initial, None, None)>>
    /\ \A i, j \in 1..Len(enqueued) :
          Str(enqueued[i].puzzle) = Str(enqueued[j].puzzle) => i = j
    /\ Len(enqueued) + 1 <= Cardinality({Str(s) : s \in ReachPlus(Initial)}) + 1
    /\ Len(new_puzzle) <= Len(enqueued) + 1

\* A search on a graph with a cycle through the initial state, the initial
\* state appended again and every reachable state appended once.
C20_Witness ==
    /\ Initial \in ReachPlus(Initial)
    /\ \E i \in 1..Len(enqueued) : enqueued[i].puzzle = Initial
    /\ Len(enqueued) >= 2
    /\ Len(enqueued) = Cardinality(ReachPlus(Initial))

====
